---------------------------- MODULE Spec2Model ----------------------------
(***************************************************************************)
(* MTPcode.py: least-squares fits of four WVTR-versus-thickness series,    *)
(* the diffusion coefficient derived from each fitted slope, the printed   *)
(* report, the plot geometry and the two figures.                          *)
(*                                                                         *)
(* Every number of the script is a Python float or a numpy float64, i.e.   *)
(* an IEEE-754 binary64.  The model computes in binary64 as the script     *)
(* does: each operation is the exact result rounded to nearest, ties to    *)
(* even.  TLC's integers are 32 bits wide, so significands are kept as     *)
(* little-endian sequences of limbs (section 1) and a binary64 is a record *)
(* of kind, sign, significand and exponent (section 2).                    *)
(***************************************************************************)
EXTENDS Integers, Sequences, FiniteSets, TLC

(***************************************************************************)
(* 1. Natural numbers of any size: <<l1, ..., ln>> is the sum of           *)
(*    l_i * Base^(i-1), every l_i in 0..Base-1, l_n # 0; zero is << >>.    *)
(***************************************************************************)
Base == 2^13

LimbBits == CHOOSE k \in 1..30 : 2^k = Base

Max(a, b) == IF a >= b THEN a ELSE b

Min(a, b) == IF a <= b THEN a ELSE b

\* a without its high zero limbs.
TrimV(a) ==
  SubSeq(a, 1, CHOOSE k \in 0..Len(a) :
                 /\ k = 0 \/ a[k] # 0
                 /\ \A j \in (k + 1)..Len(a) : a[j] = 0)

Trim(x) == CHOOSE r \in {TrimV(a) : a \in {x}} : TRUE

Limb(a, i) == IF i >= 1 /\ i <= Len(a) THEN a[i] ELSE 0

\* A machine integer 0 <= n < 2^31 as a limb sequence.
NatOf(x) ==
  CHOOSE r \in {TrimV(<<n % Base, (n \div Base) % Base, n \div (Base * Base)>>) :
                  n \in {x}} : TRUE

\* Number of binary digits of a machine integer below 2^30.
BitLenInt(x) ==
  CHOOSE r \in {CHOOSE k \in 0..30 : n < 2^k /\ (k = 0 \/ n >= 2^(k - 1)) :
                  n \in {x}} : TRUE

BitLen(a) ==
  IF a = << >> THEN 0 ELSE LimbBits * (Len(a) - 1) + BitLenInt(a[Len(a)])

\* -1, 0, 1 as a < b, a = b, a > b (both trimmed): the highest limb in which
\* two numbers of the same length differ decides.
CmpV(a, b) ==
  IF Len(a) < Len(b) THEN -1
  ELSE IF Len(a) > Len(b) THEN 1
  ELSE IF a = b THEN 0
  ELSE LET i == CHOOSE i \in 1..Len(a) :
                  a[i] # b[i] /\ \A j \in (i + 1)..Len(a) : a[j] = b[j]
       IN  IF a[i] < b[i] THEN -1 ELSE 1

Cmp(x, y) == CHOOSE r \in {CmpV(a, b) : a \in {x}, b \in {y}} : TRUE

\* a + b.  Limb i receives a carry when a limb below it overflows and every
\* limb in between is full.
AddV(a, b) ==
  LET n == Max(Len(a), Len(b))
      T(i) == Limb(a, i) + Limb(b, i)
      C(i) == IF \E j \in 1..(i - 1) :
                   T(j) >= Base /\ \A k \in (j + 1)..(i - 1) : T(k) = Base - 1
              THEN 1 ELSE 0
  IN  Trim(SubSeq([i \in 1..(n + 1) |-> (T(i) + C(i)) % Base], 1, n + 1))

Add(x, y) == CHOOSE r \in {AddV(a, b) : a \in {x}, b \in {y}} : TRUE

\* a - b for a >= b.  Limb i lends when a limb below it is short and every
\* limb in between is level.
SubV(a, b) ==
  LET T(i) == a[i] - Limb(b, i)
      C(i) == IF \E j \in 1..(i - 1) :
                   T(j) < 0 /\ \A k \in (j + 1)..(i - 1) : T(k) = 0
              THEN 1 ELSE 0
  IN  Trim(SubSeq([i \in 1..Len(a) |-> (T(i) - C(i)) % Base], 1, Len(a)))

Sub(x, y) == CHOOSE r \in {SubV(a, b) : a \in {x}, b \in {y}} : TRUE

\* Column k of the schoolbook product: the sum of a[i] * b[k + 1 - i].  The
\* sum stays a machine integer while a has at most 2^31 / Base^2 limbs.
RECURSIVE Column(_, _, _, _)
Column(a, b, k, i) ==
  IF i > Len(a) THEN 0
  ELSE a[i] * Limb(b, k + 1 - i) + Column(a, b, k, i + 1)

\* The number whose limbs, not yet carried, are the column sums: every sum
\* is three limbs, which makes three numbers to add.
Carried(col) ==
  LET n == Len(col)
      lo == SubSeq([k \in 1..n |-> col[k] % Base], 1, n)
      mid == SubSeq([k \in 1..n |-> IF k = 1 THEN 0 ELSE (col[k - 1] \div Base) % Base], 1, n)
      hi == SubSeq([k \in 1..n |-> IF k <= 2 THEN 0 ELSE col[k - 2] \div (Base * Base)], 1, n)
  IN  Add(Add(lo, mid), hi)

MulV(a, b) ==
  CHOOSE r \in {Carried(col) :
                  col \in {SubSeq([k \in 1..(Len(a) + Len(b)) |-> Column(a, b, k, 1)],
                                  1, Len(a) + Len(b))}} : TRUE

Mul(x, y) ==
  CHOOSE r \in {IF a = << >> \/ b = << >> THEN << >> ELSE MulV(a, b) :
                  a \in {x}, b \in {y}} : TRUE

\* a * 2^n.
ShiftLeftV(a, n) ==
  IF a = << >> \/ n = 0 THEN a
  ELSE LET q == n \div LimbBits
           up == 2^(n % LimbBits)
           down == 2^(LimbBits - (n % LimbBits))
           len == Len(a) + q + 1
       IN  Trim(SubSeq([i \in 1..len |->
                          ((Limb(a, i - q) * up) % Base) + (Limb(a, i - q - 1) \div down)],
                       1, len))

ShiftLeft(x, y) == CHOOSE r \in {ShiftLeftV(a, n) : a \in {x}, n \in {y}} : TRUE

\* a \div 2^n.
ShiftRightV(a, n) ==
  IF a = << >> \/ n = 0 THEN a
  ELSE IF n \div LimbBits >= Len(a) THEN << >>
  ELSE LET q == n \div LimbBits
           down == 2^(n % LimbBits)
           up == 2^(LimbBits - (n % LimbBits))
           len == Len(a) - q
       IN  Trim(SubSeq([i \in 1..len |->
                          (Limb(a, i + q) \div down) + ((Limb(a, i + q + 1) % down) * up)],
                       1, len))

ShiftRight(x, y) == CHOOSE r \in {ShiftRightV(a, n) : a \in {x}, n \in {y}} : TRUE

\* Bit i of a (bit 0 is the lowest).
Bit(a, i) == (Limb(a, (i \div LimbBits) + 1) \div 2^(i % LimbBits)) % 2

\* Whether the n lowest bits of a are all 0.
LowBitsZero(a, n) ==
  /\ \A i \in 1..Min(n \div LimbBits, Len(a)) : a[i] = 0
  /\ Limb(a, (n \div LimbBits) + 1) % 2^(n % LimbBits) = 0

\* 4a + 1 if odd, 4a if not.
Quad(a, odd) ==
  CHOOSE r \in {IF a = << >> THEN NatOf(c) ELSE [ShiftLeft(a, 2) EXCEPT ![1] = @ + c] :
                  c \in {IF odd THEN 1 ELSE 0}} : TRUE

\* How many times d must be taken back from the product p = est * d for it to
\* fit in rem, for est at most 2 above the limb that rem holds of d; up is
\* rem + d.
Over(p, rem, up) ==
  IF Cmp(p, rem) <= 0 THEN 0 ELSE IF Cmp(p, up) <= 0 THEN 1 ELSE 2

\* rem - (est - over) * d, given the product p = est * d and up = rem + d.
QRem(rem, d, p, up, over) ==
  Sub(IF over = 0 THEN rem ELSE IF over = 1 THEN up ELSE Add(up, d), p)

\* One step of long division by limbs (Knuth's algorithm D): the quotient q
\* so far gains the limb that the running remainder rem holds of d.  With the
\* top limb of d at least Base/2, the limb estimated from the two top limbs
\* of rem is at most 2 too large.
DivStep(q, rem, d) ==
  CHOOSE qr \in
    {CHOOSE qr \in
       {CHOOSE qr \in {<<Trim(<<est - over>> \o q), QRem(rem, d, p, up, over)>> :
                         over \in {Over(p, rem, up)}} : TRUE :
          p \in {Mul(NatOf(est), d)}, up \in {Add(rem, d)}} : TRUE :
       est \in {Min((Limb(rem, Len(d) + 1) * Base + Limb(rem, Len(d))) \div d[Len(d)],
                    Base - 1)}} : TRUE

\* <<quotient, remainder>> of the limbs i..Len(n) of n by d: those of the
\* limbs above, then limb i brought down.  Fewer limbs than d has are a
\* remainder already.
RECURSIVE DivLimbs(_, _, _)
DivLimbs(n, d, i) ==
  IF i > Len(n) - Len(d) + 1 THEN <<(<< >>), Trim(SubSeq(n, Max(i, 1), Len(n)))>>
  ELSE CHOOSE qr \in
    {CHOOSE qr \in {DivStep(above[1], rem, d) :
                      rem \in {Trim(<<n[i]>> \o above[2])}} : TRUE :
       above \in {DivLimbs(n, d, i + 1)}} : TRUE

\* <<quotient, remainder>> of n by d # 0, d scaled to a full top limb.
DivMod(x, y) ==
  CHOOSE r \in
    {<<qr[1], ShiftRight(qr[2], LimbBits - BitLenInt(y[Len(y)]))>> :
       qr \in {CHOOSE qr \in {DivLimbs(n, d, 1) :
                                n \in {ShiftLeft(x, LimbBits - BitLenInt(y[Len(y)]))},
                                d \in {ShiftLeft(y, LimbBits - BitLenInt(y[Len(y)]))}} :
                 TRUE}} : TRUE

\* The integer square root of a machine integer below 2^30, by its high and
\* then its low digits.
SqrtHigh(t) ==
  CHOOSE h \in 0..255 : (h * 128) * (h * 128) <= t
                        /\ (h = 255 \/ ((h + 1) * 128) * ((h + 1) * 128) > t)

SqrtInt(x) ==
  CHOOSE r \in
    {CHOOSE r \in (h * 128)..(h * 128 + 127) : r * r <= t /\ (r + 1) * (r + 1) > t :
       t \in {x}, h \in {SqrtHigh(x)}} : TRUE

\* The integer square root of n by Newton's iteration from above: the
\* iterates decrease down to the root, and the first that does not is it.
RECURSIVE SqrtFrom(_, _)
SqrtFrom(n, x) ==
  CHOOSE r \in {IF Cmp(y, x) >= 0 THEN x ELSE SqrtFrom(n, y) :
                  y \in {ShiftRight(Add(x, DivMod(n, x)[1]), 1)}} : TRUE

\* The start is the root of the 29 or 30 high bits of n, plus one, scaled back.
SqrtStart(n) ==
  CHOOSE r \in
    {CHOOSE r \in
       {ShiftLeft(NatOf(SqrtInt(Limb(t, 1) + Limb(t, 2) * Base
                                + Limb(t, 3) * Base * Base) + 1),
                  (cut + (cut % 2)) \div 2) :
          t \in {ShiftRight(n, cut + (cut % 2))}} : TRUE :
       cut \in {Max(0, BitLen(n) - 30)}} : TRUE

ISqrt(x) ==
  CHOOSE r \in {IF n = << >> THEN n
                ELSE CHOOSE r \in {SqrtFrom(n, x0) : x0 \in {SqrtStart(n)}} : TRUE :
                  n \in {x}} : TRUE

(***************************************************************************)
(* 2. IEEE-754 binary64.  A finite value is (-1)^s * m * 2^e with          *)
(*    m < 2^Prec and e >= EMin, in canonical form: 2^(Prec-1) <= m unless  *)
(*    e = EMin (subnormal) or m = 0 (then s = 0, e = 0: -0.0 is identified *)
(*    with 0.0, which abs() and every comparison of the script do too).    *)
(***************************************************************************)
Prec == 53

EMin == -1074

EMax == 971

Zero == [k |-> "fin", s |-> 0, m |-> << >>, e |-> 0]

NaN == [k |-> "nan", s |-> 0, m |-> << >>, e |-> 0]

Inf(s) == [k |-> "inf", s |-> s, m |-> << >>, e |-> 0]

IsNaN(a) == a.k = "nan"

IsInf(a) == a.k = "inf"

IsFinite(a) == a.k = "fin"

IsZero(a) == a.k = "fin" /\ a.m = << >>

\* M \div 2^sh for sh > 0, rounded to nearest, ties to even.
Nearest(M, sh) ==
  CHOOSE m \in
    {IF Bit(M, sh - 1) = 1 /\ (~LowBitsZero(M, sh - 1) \/ Bit(q, 0) = 1)
     THEN Add(q, <<1>>) ELSE q : q \in {ShiftRight(M, sh)}} : TRUE

\* (-1)^s * m * 2^e in canonical form, for m of at most Prec bits or, after
\* rounding up, 2^Prec; overflow gives inf.
Pack(s, m, e) ==
  IF m = << >> THEN Zero
  ELSE IF e + (IF BitLen(m) > Prec THEN 1 ELSE 0) > EMax THEN Inf(s)
  ELSE [k |-> "fin", s |-> s,
        m |-> IF BitLen(m) > Prec THEN ShiftRight(m, 1) ELSE m,
        e |-> e + (IF BitLen(m) > Prec THEN 1 ELSE 0)]

\* The binary64 nearest to (-1)^s * M * 2^E, ties to even, which is a
\* multiple of 2^e1.
RoundV(s, M, E, e1) ==
  CHOOSE r \in {Pack(s, m, e1) :
                  m \in {IF e1 <= E THEN ShiftLeft(M, E - e1) ELSE Nearest(M, e1 - E)}} : TRUE

Round(s, x, E) ==
  CHOOSE r \in {CHOOSE r \in {RoundV(s, M, E, e1) :
                                e1 \in {Max(E + BitLen(M) - Prec, EMin)}} : TRUE :
                  M \in {x}} : TRUE

\* int -> float for a machine integer, and for a natural number given by its limbs.
FromInt(n) == Round(IF n < 0 THEN 1 ELSE 0, NatOf(IF n < 0 THEN -n ELSE n), 0)

FromNat(a) == Round(0, a, 0)

FNeg(a) == IF a.k = "nan" \/ IsZero(a) THEN a ELSE [a EXCEPT !.s = 1 - a.s]

FAbs(a) == IF a.k = "nan" THEN a ELSE [a EXCEPT !.s = 0]

\* -1, 0, 1 as |a| < |b|, |a| = |b|, |a| > |b|, for a and b not NaN.
CmpAbs(a, b) ==
  IF a.k = "inf" \/ b.k = "inf"
  THEN IF a.k = b.k THEN 0 ELSE IF a.k = "inf" THEN 1 ELSE -1
  ELSE IF a.m = << >> \/ b.m = << >>
  THEN IF a.m = b.m THEN 0 ELSE IF b.m = << >> THEN 1 ELSE -1
  ELSE IF BitLen(a.m) + a.e # BitLen(b.m) + b.e
  THEN IF BitLen(a.m) + a.e < BitLen(b.m) + b.e THEN -1 ELSE 1
  ELSE Cmp(a.m, b.m)

\* -1, 0, 1 as a < b, a = b, a > b, for a and b not NaN.
FCmp(a, b) ==
  IF IsZero(a) /\ IsZero(b) THEN 0
  ELSE IF a.s # b.s THEN (IF a.s = 1 THEN -1 ELSE 1)
  ELSE (IF a.s = 0 THEN 1 ELSE -1) * CmpAbs(a, b)

\* Python's comparisons: every comparison with a NaN is False.
FLt(x, y) ==
  \E a \in {x}, b \in {y} : a.k # "nan" /\ b.k # "nan" /\ FCmp(a, b) < 0

FLe(x, y) ==
  \E a \in {x}, b \in {y} : a.k # "nan" /\ b.k # "nan" /\ FCmp(a, b) <= 0

FEq(x, y) ==
  \E a \in {x}, b \in {y} : a.k # "nan" /\ b.k # "nan" /\ FCmp(a, b) = 0

FGt(x, y) == FLt(y, x)

FGe(x, y) == FLe(y, x)

\* a * b when one of them is an infinity or a NaN.
MulSpecial(a, b) ==
  IF a.k = "nan" \/ b.k = "nan" \/ IsZero(a) \/ IsZero(b) THEN NaN
  ELSE Inf((a.s + b.s) % 2)

FMulV(a, b) ==
  IF a.k # "fin" \/ b.k # "fin" THEN MulSpecial(a, b)
  ELSE Round((a.s + b.s) % 2, Mul(a.m, b.m), a.e + b.e)

FMul(x, y) == CHOOSE r \in {FMulV(a, b) : a \in {x}, b \in {y}} : TRUE

\* Where the rounding of a sum (-1)^s * M * 2^E + d no longer depends on how
\* small d # 0 is: below 2^Below(M, E) in magnitude, d only says on which side
\* of M * 2^E the sum lies, since M * 2^E, every binary64 near it and every
\* midpoint of two of them are multiples of 2^Below(M, E).
Below(M, E) == Min(E, Max(E + BitLen(M) - 1 - Prec, EMin) - 1)

\* <<sign, magnitude>> of (-1)^sa * A + (-1)^sb * B.
SignedSum(sa, A, sb, B) ==
  IF sa = sb THEN <<sa, Add(A, B)>>
  ELSE IF Cmp(A, B) >= 0 THEN <<sa, Sub(A, B)>> ELSE <<sb, Sub(B, A)>>

\* The rounded sum of two numbers given exactly, once both are multiples of
\* the power of two of the smaller exponent.
SumAligned(sa, Ma, Ea, sb, Mb, Eb) ==
  CHOOSE r \in
    {CHOOSE r \in {Round(t[1], t[2], Min(Ea, Eb)) :
                     t \in {SignedSum(sa, A, sb, B)}} : TRUE :
       A \in {ShiftLeft(Ma, Ea - Min(Ea, Eb))},
       B \in {ShiftLeft(Mb, Eb - Min(Ea, Eb))}} : TRUE

\* The rounded sum of two nonzero numbers given exactly.  A term below the
\* point where only its sign matters is replaced by 2^(Below - 1).
SumRoundV(sa, Ma, Ea, sb, Mb, Eb) ==
  CHOOSE r \in
    {SumAligned(sa, p[1], p[2], sb, p[3], p[4]) :
       p \in {IF BitLen(Mb) + Eb <= Below(Ma, Ea)
              THEN <<Ma, Ea, <<1>>, Below(Ma, Ea) - 1>>
              ELSE IF BitLen(Ma) + Ea <= Below(Mb, Eb)
              THEN <<(<<1>>), Below(Mb, Eb) - 1, Mb, Eb>>
              ELSE <<Ma, Ea, Mb, Eb>>}} : TRUE

SumRound(sa, x, Ea, sb, y, Eb) ==
  CHOOSE r \in {SumRoundV(sa, Ma, Ea, sb, Mb, Eb) : Ma \in {x}, Mb \in {y}} : TRUE

\* a + b when one of them is an infinity or a NaN.
AddSpecial(a, b) ==
  IF a.k = "nan" \/ b.k = "nan" THEN NaN
  ELSE IF a.k = "inf"
  THEN IF b.k = "inf" /\ b.s # a.s THEN NaN ELSE a
  ELSE b

FAddV(a, b) ==
  IF a.k # "fin" \/ b.k # "fin" THEN AddSpecial(a, b)
  ELSE IF IsZero(a) THEN b
  ELSE IF IsZero(b) THEN a
  ELSE SumRound(a.s, a.m, a.e, b.s, b.m, b.e)

FAdd(x, y) == CHOOSE r \in {FAddV(a, b) : a \in {x}, b \in {y}} : TRUE

FSub(x, y) == CHOOSE r \in {FAddV(a, FNeg(b)) : a \in {x}, b \in {y}} : TRUE

\* Fused multiply-add: a * b + c rounded once.
FMAV(a, b, c) ==
  IF a.k # "fin" \/ b.k # "fin" THEN AddSpecial(MulSpecial(a, b), c)
  ELSE IF c.k # "fin" \/ IsZero(a) \/ IsZero(b) THEN c
  ELSE CHOOSE r \in
    {IF IsZero(c) THEN SumAligned((a.s + b.s) % 2, P, a.e + b.e, 0, << >>, a.e + b.e)
     ELSE SumRoundV((a.s + b.s) % 2, P, a.e + b.e, c.s, c.m, c.e) :
       P \in {Mul(a.m, b.m)}} : TRUE

FMA(x, y, z) ==
  CHOOSE r \in {FMAV(a, b, c) : a \in {x}, b \in {y}, c \in {z}} : TRUE

\* numpy's float64 division: x/0 is inf (nan for 0/0) with a RuntimeWarning,
\* never an exception.  The quotient is cut to at least Prec + 3 bits and a
\* last bit recording a nonzero remainder, so that Round sees on which side
\* of every tie the exact quotient lies.
FDivV(a, b) ==
  IF a.k = "nan" \/ b.k = "nan" THEN NaN
  ELSE IF a.k = "inf"
  THEN IF b.k = "inf" THEN NaN ELSE Inf((a.s + b.s) % 2)
  ELSE IF b.k = "inf" THEN Zero
  ELSE IF IsZero(b)
  THEN IF IsZero(a) THEN NaN ELSE Inf((a.s + b.s) % 2)
  ELSE IF IsZero(a) THEN Zero
  ELSE CHOOSE r \in
    {CHOOSE r \in {Round((a.s + b.s) % 2, Quad(qr[1], qr[2] # << >>),
                         a.e - b.e - sh - 2) :
                     qr \in {DivMod(ShiftLeft(a.m, sh), b.m)}} : TRUE :
       sh \in {Max(0, Prec + 3 + BitLen(b.m) - BitLen(a.m))}} : TRUE

FDiv(x, y) == CHOOSE r \in {FDivV(a, b) : a \in {x}, b \in {y}} : TRUE

\* numpy's sqrt: nan for a negative argument (with a RuntimeWarning).  The
\* significand is scaled to an even exponent and at least 2 * (Prec + 3) bits.
SqrtShift(a) ==
  LET sh0 == Max(0, 2 * (Prec + 3) - BitLen(a.m))
  IN  IF (a.e - sh0) % 2 = 0 THEN sh0 ELSE sh0 + 1

FSqrtV(a) ==
  IF a.k = "nan" THEN NaN
  ELSE IF IsZero(a) THEN Zero
  ELSE IF a.s = 1 THEN NaN
  ELSE IF a.k = "inf" THEN a
  ELSE CHOOSE r \in
    {CHOOSE r \in {Round(0, Quad(rt, Mul(rt, rt) # n),
                         ((a.e - sh) \div 2) - 2) :
                     rt \in {ISqrt(n)}} : TRUE :
       sh \in {SqrtShift(a)}, n \in {ShiftLeft(a.m, SqrtShift(a))}} : TRUE

FSqrt(x) == CHOOSE r \in {FSqrtV(a) : a \in {x}} : TRUE

RECURSIVE Pow10(_)
Pow10(k) == IF k = 0 THEN <<1>> ELSE Mul(<<10>>, Pow10(k - 1))

\* The float literal n * 10^(-k) (n a machine integer, 10^k < 2^Prec): Python
\* reads a decimal literal as the binary64 nearest to its value, which is the
\* correctly rounded quotient of the two exactly representable integers.
Dec(n, k) == FDiv(FromInt(n), FromNat(Pow10(k)))

One == FromInt(1)

\* The next binary64 above a finite a > 0.
NextUp(a) == Round(0, Add(ShiftLeft(a.m, 1), <<2>>), a.e - 1)

(***************************************************************************)
(* 3. Python numbers.  A float64 is numpy's scalar, a float and an int are *)
(*    Python's: the same binary64 values, told apart where the script's    *)
(*    arithmetic tells them apart.                                         *)
(***************************************************************************)
Float64(v) == [t |-> "float64", v |-> v]

Returned(x) == [raised |-> "none", value |-> x]

Raised(e) == [raised |-> e, value |-> << >>]

\* floor(bits * log10(2)) for a count of bits, negative ones included.
Log10Floor(bits) == (bits * 30103) \div 100000

\* Whether a finite a > 0 is at least 10^k.
AtLeastPow10(a, k) ==
  Cmp(Mul(ShiftLeft(a.m, Max(a.e, 0)), Pow10(Max(-k, 0))),
      Mul(ShiftLeft(<<1>>, Max(-a.e, 0)), Pow10(Max(k, 0)))) >= 0

\* The whole number nearest to num / den, the even one of two equally near.
NearestQuotient(num, den) ==
  CHOOSE q \in
    {CHOOSE q \in
       {(Limb(qr[1], 1) + Limb(qr[1], 2) * Base)
        + (IF half < 0 \/ (half = 0 /\ Limb(qr[1], 1) % 2 = 0) THEN 0 ELSE 1) :
          half \in {Cmp(ShiftLeft(qr[2], 1), den)}} : TRUE :
       qr \in {DivMod(num, den)}} : TRUE

\* The three significant decimal digits of a finite a > 0 whose decimal
\* exponent is k, as a whole number: a / 10^(k - 2) rounded to nearest; 1000
\* when a rounds up to the next power of ten.
Digits3(a, k) ==
  NearestQuotient(Mul(ShiftLeft(a.m, Max(a.e, 0)), Pow10(Max(2 - k, 0))),
                  Mul(ShiftLeft(<<1>>, Max(-a.e, 0)), Pow10(Max(k - 2, 0))))

\* The digits d and the exponent k as the text d.dd e k.
Sci(s, d, k) ==
  IF d = 1000 THEN [k |-> "fin", s |-> s, digits |-> 100, exp |-> k + 1]
  ELSE [k |-> "fin", s |-> s, digits |-> d, exp |-> k]

\* format(x, ".2e"): "nan", "inf", "-inf", or sign, three significant digits
\* and decimal exponent of the decimal nearest to x.
Format2e(x) ==
  IF x.k # "fin" THEN [k |-> x.k, s |-> IF x.k = "nan" THEN 0 ELSE x.s,
                       digits |-> 0, exp |-> 0]
  ELSE IF IsZero(x) THEN [k |-> "fin", s |-> 0, digits |-> 0, exp |-> 0]
  ELSE CHOOSE t \in
    {CHOOSE t \in {Sci(a.s, Digits3(a, k), k) :
                     k \in {IF AtLeastPow10(a, k0 + 1) THEN k0 + 1 ELSE k0}} : TRUE :
       a \in {x}, k0 \in {Log10Floor(BitLen(x.m) + x.e - 1)}} : TRUE

(***************************************************************************)
(* 4. The constants and the data tables of the script.                     *)
(***************************************************************************)
Mw == Dec(1801528, 5)

Ci == Dec(11, 1)

Co == Dec(55, 2)

Hp == Dec(625, 7)

D_PLA_imperm == Dec(1, 15)

\* Micro with the thicknesses taken for millimetres.
Milli(h) == SubSeq([i \in 1..Len(h) |-> FMul(FromInt(h[i]), Dec(1, 3))], 1, Len(h))

\* np.array([...]) * 1e-6: every thickness in micrometres times the float 1e-6.
Micro(h) == SubSeq([i \in 1..Len(h) |-> FMul(FromInt(h[i]), Dec(1, 6))], 1, Len(h))

\* Ints with the measurements entered last to first.
IntsBackwards(w) == SubSeq([i \in 1..Len(w) |-> FromInt(w[Len(w) + 1 - i])], 1, Len(w))

\* np.array([...]) of integers, read as float64 by every operation on it.
Ints(w) == SubSeq([i \in 1..Len(w) |-> FromInt(w[i])], 1, Len(w))

H_1x == Micro(<<57, 60, 62>>)

WVTR_1x == Ints(<<3363, 2232, 1922>>)

H_2x == Micro(<<72, 74, 79>>)

WVTR_2x == Ints(<<2395, 1673, 1513>>)

H_3x == Micro(<<73, 76, 79>>)

WVTR_3x == Ints(<<2177, 1739, 1470>>)

H_PLA == Micro(<<64, 79, 81, 83>>)

WVTR_PLA == Ints(<<1880, 452, 414, 212>>)

\* The four series in the order the script fits them: 1x, 2x, 3x, PLA.
Shipped ==
  << [H |-> H_1x, WVTR |-> WVTR_1x], [H |-> H_2x, WVTR |-> WVTR_2x],
     [H |-> H_3x, WVTR |-> WVTR_3x], [H |-> H_PLA, WVTR |-> WVTR_PLA] >>

Series == 1..4

PLA == 4

Repeat(v, n) == SubSeq([i \in 1..n |-> v], 1, n)

Reverse(w) == SubSeq([i \in 1..Len(w) |-> w[Len(w) + 1 - i]], 1, Len(w))

\* The tables are the script's whole input.  Besides the shipped ones the
\* model runs the script on tables with one series edited.
Edits == {"constant_x", "short_y", "one_point", "empty", "flat_y", "rising_y"}

Edit(kind, t) ==
  CASE kind = "constant_x" -> [t EXCEPT !.H = Repeat(t.H[1], Len(t.H))]
    [] kind = "short_y" -> [t EXCEPT !.WVTR = SubSeq(t.WVTR, 1, Len(t.WVTR) - 1)]
    [] kind = "one_point" -> [H |-> SubSeq(t.H, 1, 1), WVTR |-> SubSeq(t.WVTR, 1, 1)]
    [] kind = "empty" -> [H |-> << >>, WVTR |-> << >>]
    [] kind = "flat_y" -> [t EXCEPT !.WVTR = Repeat(t.WVTR[1], Len(t.WVTR))]
    [] kind = "rising_y" -> [t EXCEPT !.WVTR = Reverse(t.WVTR)]

TablesFrom(t) ==
  {t} \cup {[t EXCEPT ![k] = Edit(kind, t[k])] : k \in Series, kind \in Edits}

Tables == CHOOSE T \in {TablesFrom(t) : t \in {Shipped}} : TRUE

(***************************************************************************)
(* 5. numpy and scipy as the script uses them.                             *)
(***************************************************************************)
VARIABLES
  tables,    \* the four series, each [H, WVTR]
  fused,     \* whether the BLAS of the build sums dot products with fused multiply-adds
  pc,        \* the index in Steps of the statement to run next
  error,     \* the exception that ended the run, "none" while there is none
  fits,      \* per series << >> or <<[slope, intercept, r2]>>: s1, i1, r1 ... sP, iP, rP
  Ds,        \* per series << >> or <<D>>: Ds_1x, Ds_2x, Ds_3x, D_PLA_perm
  out,       \* the lines printed so far
  Hfit,      \* per series << >> or <<[start, stop, num]>>: Hfit_1, Hfit_2, Hfit_3, Hfit_P
  WVTR_fit,  \* per curve << >> or <<[first, last]>>: the four fit lines and WVTR_PLA_imperm
  shown,     \* the figures rendered so far
  call       \* the pure function under study, its arguments and its results

vars == <<tables, fused, pc, error, fits, Ds, out, Hfit, WVTR_fit, shown, call>>

\* np.add.reduce over fewer than 8 elements: one running sum, left to right.
RECURSIVE SumTo(_, _)
SumTo(x, n) == IF n = 0 THEN Zero ELSE FAdd(SumTo(x, n - 1), x[n])

\* np.mean: the sum over the count.
mean(x) == FDiv(SumTo(x, Len(x)), FromInt(Len(x)))

\* np.amax and np.amin of a non-empty array without NaN.
amax(x) == x[CHOOSE i \in 1..Len(x) : \A j \in 1..Len(x) : FLe(x[j], x[i])]

amin(x) == x[CHOOSE i \in 1..Len(x) : \A j \in 1..Len(x) : FLe(x[i], x[j])]

\* The dot product of the BLAS: products summed in order, each product
\* rounded before it is added or fused with the addition.
RECURSIVE dot(_, _, _)
dot(u, v, n) ==
  IF n = 0 THEN Zero
  ELSE IF fused THEN FMA(u[n], v[n], dot(u, v, n - 1))
  ELSE FAdd(dot(u, v, n - 1), FMul(u[n], v[n]))

\* x - mean(x), elementwise.
Centred(x) ==
  CHOOSE c \in {SubSeq([i \in 1..Len(x) |-> FSub(x[i], m)], 1, Len(x)) :
                  m \in {mean(x)}} : TRUE

\* np.cov(x, y, bias=1) for x and y of one length: the rows are centred,
\* multiplied, and the products scaled by 1/n.
cov(x, y) ==
  CHOOSE c \in
    {[ssxm |-> FMul(dot(X, X, Len(x)), w),
      ssxym |-> FMul(dot(X, Y, Len(x)), w),
      ssym |-> FMul(dot(Y, Y, Len(x)), w)] :
       X \in {Centred(x)}, Y \in {Centred(y)},
       w \in {FDiv(One, FromInt(Len(x)))}} : TRUE

\* The correlation coefficient of linregress, kept within [-1, 1].
Clip(r) ==
  IF FGt(r, One) THEN One ELSE IF FLt(r, FNeg(One)) THEN FNeg(One) ELSE r

rvalue(c) ==
  IF FEq(c.ssxm, Zero) \/ FEq(c.ssym, Zero) THEN Zero
  ELSE CHOOSE v \in {Clip(r) : r \in {FDiv(c.ssxym, FSqrt(FMul(c.ssxm, c.ssym)))}} : TRUE

\* Line with the slope of x on y.
LineOfXonY(c, xmean, ymean) ==
  CHOOSE res \in
    {[slope |-> slope,
      intercept |-> FSub(ymean, FMul(slope, xmean)),
      rvalue |-> rvalue(c)] : slope \in {FDiv(c.ssxym, c.ssym)}} : TRUE

Line(c, xmean, ymean) ==
  CHOOSE res \in
    {[slope |-> slope,
      intercept |-> FSub(ymean, FMul(slope, xmean)),
      rvalue |-> rvalue(c)] : slope \in {FDiv(c.ssxym, c.ssxm)}} : TRUE

\* scipy.stats.linregress(x, y): ValueError for an empty input, for more than
\* one point with all x identical and (from np.cov) for x and y of different
\* lengths; a single point passes every check.
linregress(x, y) ==
  IF Len(x) = 0 \/ Len(y) = 0 THEN Raised("ValueError")
  ELSE IF Len(x) > 1 /\ FEq(amax(x), amin(x)) THEN Raised("ValueError")
  ELSE IF Len(x) # Len(y) THEN Raised("ValueError")
  ELSE Returned(CHOOSE res \in {Line(c, xmean, ymean) :
                                  c \in {cov(x, y)},
                                  xmean \in {mean(x)},
                                  ymean \in {mean(y)}} : TRUE)

(***************************************************************************)
(* 6. The functions of the script.                                         *)
(***************************************************************************)
\* fit_linear returning r where r**2 is meant.
fit_linear_r(H, WVTR) ==
  CHOOSE res \in
    {IF lr.raised # "none" THEN lr
     ELSE Returned([slope |-> lr.value.slope,
                    intercept |-> lr.value.intercept,
                    r2 |-> lr.value.rvalue]) : lr \in {linregress(H, WVTR)}} : TRUE

\* return slope, intercept, r**2
fit_linear(H, WVTR) ==
  CHOOSE res \in
    {IF lr.raised # "none" THEN lr
     ELSE Returned([slope |-> lr.value.slope,
                    intercept |-> lr.value.intercept,
                    r2 |-> FMul(lr.value.rvalue, lr.value.rvalue)]) :
       lr \in {linregress(H, WVTR)}} : TRUE

\* extract_D without the abs().
extract_D_signed(slope) ==
  IF slope.t # "float64" /\ IsZero(slope.v) THEN Raised("ZeroDivisionError")
  ELSE Returned([t |-> IF slope.t = "float64" THEN "float64" ELSE "float",
                 v |-> FDiv(FMul(Mw, FSub(Ci, Co)), slope.v)])

\* return Mw * (Ci - Co) / abs(slope).  The numerator is a Python float.  A
\* float64 divisor makes it numpy's division, which returns inf for a zero
\* divisor; a float or int divisor makes it Python's, which raises.
extract_D(slope) ==
  IF slope.t # "float64" /\ IsZero(slope.v) THEN Raised("ZeroDivisionError")
  ELSE Returned([t |-> IF slope.t = "float64" THEN "float64" ELSE "float",
                 v |-> FDiv(FMul(Mw, FSub(Ci, Co)), FAbs(slope.v))])

\* Element i (from 0) of np.linspace(start, stop, num): the last element is
\* stop itself, the others are i * step + start.
LinspaceAt(g, i) ==
  IF i = g.num - 1 /\ g.num > 1 THEN g.stop
  ELSE FAdd(FMul(FromInt(i), FDiv(FSub(g.stop, g.start), FromInt(g.num - 1))), g.start)

\* Impermeable with the film's term multiplied where it is divided.
ImpermeableTimes(H) ==
  FDiv(FMul(Mw, FSub(Ci, Co)), FAdd(FDiv(Hp, D_PLA_imperm), FMul(H, D_PLA_imperm)))

\* WVTR_PLA_imperm at one thickness.
Impermeable(H) ==
  FDiv(FMul(Mw, FSub(Ci, Co)), FAdd(FDiv(Hp, D_PLA_imperm), FDiv(H, D_PLA_imperm)))

(***************************************************************************)
(* 7. The script: its statements in program order, one step each.          *)
(***************************************************************************)
Samples100 == 100

Samples200 == 200

\* np.linspace(H.min(), H.max(), num) of series k, kept as its three arguments.
Grid(k) ==
  [start |-> amin(tables[k].H), stop |-> amax(tables[k].H),
   num |-> IF k = PLA THEN Samples200 ELSE Samples100]

Labels ==
  << "Extracted diffusion coefficients (linear regression):",
     "Biopolymer-1 Ds (1x)", "Biopolymer-1 Ds (2x)", "Biopolymer-1 Ds (3x)",
     "PLA Ds (permeable)", "PLA Ds (impermeable)" >>

Figures == <<"grid", "overlay">>

\* Steps with the overlay figure built first.
StepsOverlayFirst ==
  [k \in 1..4 |-> [op |-> "fit", k |-> k]]
  \o [k \in 1..4 |-> [op |-> "extract", k |-> k]]
  \o [k \in 1..6 |-> [op |-> "print", k |-> k]]
  \o [k \in 1..4 |-> [op |-> "linspace", k |-> k]]
  \o [k \in 1..4 |-> [op |-> "line", k |-> k]]
  \o << [op |-> "imperm", k |-> 5] >>
  \o << [op |-> "figure", k |-> 2], [op |-> "figure", k |-> 1] >>

Steps ==
  [k \in 1..4 |-> [op |-> "fit", k |-> k]]
  \o [k \in 1..4 |-> [op |-> "extract", k |-> k]]
  \o [k \in 1..6 |-> [op |-> "print", k |-> k]]
  \o [k \in 1..4 |-> [op |-> "linspace", k |-> k]]
  \o [k \in 1..4 |-> [op |-> "line", k |-> k]]
  \o << [op |-> "imperm", k |-> 5] >>
  \o [k \in 1..2 |-> [op |-> "figure", k |-> k]]

Unset == [k \in 1..4 |-> << >>]

Idle == [fn |-> "none"]

\* Nothing has run yet.
Start ==
  /\ pc = 1
  /\ error = "none"
  /\ fits = Unset
  /\ Ds = Unset
  /\ out = << >>
  /\ Hfit = Unset
  /\ WVTR_fit = [k \in 1..5 |-> << >>]
  /\ shown = << >>

Init ==
  /\ tables \in Tables
  /\ fused \in BOOLEAN
  /\ Start
  /\ call = Idle

Terminated == error # "none" \/ pc > Len(Steps)

At(op, k) == ~Terminated /\ Steps[pc] = [op |-> op, k |-> k]

\* An uncaught exception ends the run where it is raised.
Fail(e) ==
  /\ error' = e
  /\ UNCHANGED <<tables, fused, pc, fits, Ds, out, Hfit, WVTR_fit, shown, call>>

\* s, i, r = fit_linear(H, WVTR)
Fit(k) ==
  /\ At("fit", k)
  /\ \E res \in {fit_linear(tables[k].H, tables[k].WVTR)} :
       IF res.raised # "none" THEN Fail(res.raised)
       ELSE /\ fits' = [fits EXCEPT ![k] = <<res.value>>]
            /\ pc' = pc + 1
            /\ UNCHANGED <<tables, fused, error, Ds, out, Hfit, WVTR_fit, shown, call>>

\* Ds = extract_D(s); the slope linregress returned is a float64.
Extract(k) ==
  /\ At("extract", k)
  /\ IF fits[k] = << >> THEN Fail("NameError")
     ELSE \E res \in {extract_D(Float64(fits[k][1].slope))} :
            IF res.raised # "none" THEN Fail(res.raised)
            ELSE /\ Ds' = [Ds EXCEPT ![k] = <<res.value>>]
                 /\ pc' = pc + 1
                 /\ UNCHANGED <<tables, fused, error, fits, out, Hfit, WVTR_fit, shown, call>>

\* What line k prints after its label: nothing for the heading, else the
\* coefficient of a series or D_PLA_imperm, formatted with .2e.
Printed(k) ==
  IF k = 1 THEN << >>
  ELSE IF k = 6 THEN <<Format2e(D_PLA_imperm)>>
  ELSE <<Format2e(Ds[k - 1][1].v)>>

\* print(...): a line is its label and the number formatted into it.
PrintLine(k) ==
  /\ At("print", k)
  /\ IF k \in 2..5 /\ Ds[k - 1] = << >> THEN Fail("NameError")
     ELSE /\ out' = Append(out, [label |-> Labels[k], text |-> Printed(k)])
          /\ pc' = pc + 1
          /\ UNCHANGED <<tables, fused, error, fits, Ds, Hfit, WVTR_fit, shown, call>>

\* Hfit = np.linspace(H.min(), H.max(), num)
Linspace(k) ==
  /\ At("linspace", k)
  /\ Hfit' = [Hfit EXCEPT ![k] = <<Grid(k)>>]
  /\ pc' = pc + 1
  /\ UNCHANGED <<tables, fused, error, fits, Ds, out, WVTR_fit, shown, call>>

\* The index of the first and of the last element of a grid.
End(g, e) == IF e = "first" THEN 0 ELSE g.num - 1

\* Predict with the intercept subtracted.
PredictMinus(f, H) == FSub(FMul(f.slope, H), f.intercept)

\* s * H + i
Predict(f, H) == FAdd(FMul(f.slope, H), f.intercept)

\* WVTR_fit = s * Hfit + i, kept as its first and last element.
FitLine(k) ==
  /\ At("line", k)
  /\ IF fits[k] = << >> \/ Hfit[k] = << >> THEN Fail("NameError")
     ELSE /\ WVTR_fit' =
               [WVTR_fit EXCEPT ![k] =
                  <<[e \in {"first", "last"} |->
                       Predict(fits[k][1], LinspaceAt(Hfit[k][1], End(Hfit[k][1], e)))]>>]
          /\ pc' = pc + 1
          /\ UNCHANGED <<tables, fused, error, fits, Ds, out, Hfit, shown, call>>

\* WVTR_PLA_imperm = Mw * (Ci - Co) / (Hp / D_PLA_imperm + Hfit_P / D_PLA_imperm)
Imperm ==
  /\ At("imperm", 5)
  /\ IF Hfit[PLA] = << >> THEN Fail("NameError")
     ELSE /\ WVTR_fit' =
               [WVTR_fit EXCEPT ![5] =
                  <<[e \in {"first", "last"} |->
                       Impermeable(LinspaceAt(Hfit[PLA][1], End(Hfit[PLA][1], e)))]>>]
          /\ pc' = pc + 1
          /\ UNCHANGED <<tables, fused, error, fits, Ds, out, Hfit, shown, call>>

\* The figure is built and plt.show() returns once its window is closed.
Figure(k) ==
  /\ At("figure", k)
  /\ IF \E c \in 1..5 : WVTR_fit[c] = << >> THEN Fail("NameError")
     ELSE /\ shown' = Append(shown, Figures[k])
          /\ pc' = pc + 1
          /\ UNCHANGED <<tables, fused, error, fits, Ds, out, Hfit, WVTR_fit, call>>

Next ==
  \/ \E k \in Series : Fit(k)
  \/ \E k \in Series : Extract(k)
  \/ \E k \in 1..6 : PrintLine(k)
  \/ \E k \in Series : Linspace(k)
  \/ \E k \in Series : FitLine(k)
  \/ Imperm
  \/ \E k \in 1..2 : Figure(k)

Spec == Init /\ [][Next]_vars

\* The interpreter runs the next statement as long as there is one.
FairSpec == Spec /\ WF_vars(Next)

(***************************************************************************)
(* 8. extract_D and the impermeable-reference curve as functions of their  *)
(*    argument: each is applied to inputs drawn from a bounded set.        *)
(***************************************************************************)
MaxSlope == 13

Types == {"float64", "float", "int"}

\* A signed whole number as a Python number of type t.
Typed(t, s, n) == [t |-> t, v |-> FromInt(IF s = 1 THEN -n ELSE n)]

\* Magnitudes above the whole number n > 0: the next binary64, the next whole
\* number, the double, infinity.
Larger(n) ==
  IF n = 0 THEN {One}
  ELSE {NextUp(FromInt(n)), FromInt(n + 1), FromInt(2 * n), Inf(0)}

\* The pairs of slopes: a is a whole number of any sign and type, zero
\* included, and b a float64 of a larger magnitude.
SlopePairs ==
  UNION {{[fn |-> "extract_D", a |-> Typed(t, sa, n), b |-> Float64(m),
           Da |-> << >>, Db |-> << >>] :
            t \in Types, sa \in {0, 1}, m \in Larger(n)} : n \in 0..MaxSlope}

InitExtract ==
  /\ tables = Shipped
  /\ fused = FALSE
  /\ Start
  /\ call \in SlopePairs

\* Da = extract_D(a); Db = extract_D(b)
CallExtract ==
  /\ call.fn = "extract_D"
  /\ call.Da = << >>
  /\ call' = [call EXCEPT !.Da = <<extract_D(call.a)>>, !.Db = <<extract_D(call.b)>>]
  /\ UNCHANGED <<tables, fused, pc, error, fits, Ds, out, Hfit, WVTR_fit, shown>>

SpecExtract == InitExtract /\ [][CallExtract]_vars

\* The sample of index i of the grid g, the curve's value w there, its value
\* at the sample before and at the first sample.
Sampled(g, i, before, first) ==
  CHOOSE c \in
    {[fn |-> "imperm", g |-> g, i |-> i, w |-> w, prev |-> before,
      first |-> IF i = 0 THEN w ELSE first] :
       w \in {Impermeable(LinspaceAt(g, i))}} : TRUE

InitCurve ==
  /\ tables = Shipped
  /\ fused = FALSE
  /\ Start
  /\ call = Sampled(Grid(PLA), 0, << >>, Zero)

\* The next element of WVTR_PLA_imperm.
NextSample ==
  /\ call.fn = "imperm"
  /\ call.i < call.g.num - 1
  /\ call' = Sampled(call.g, call.i + 1, <<call.w>>, call.first)
  /\ UNCHANGED <<tables, fused, pc, error, fits, Ds, out, Hfit, WVTR_fit, shown>>

SpecCurve == InitCurve /\ [][NextSample]_vars

(***************************************************************************)
(* 9. The properties.                                                      *)
(***************************************************************************)
\* The size of one unit in the last place of a finite x # 0.
Ulp(x) == Round(0, <<1>>, x.e)

\* Whether a and b are finite and at most n units in the last place of the
\* larger apart.
WithinUlps(x, y, n) ==
  \E a \in {x}, b \in {y} :
    /\ a.k = "fin" /\ b.k = "fin"
    /\ FLe(FAbs(FSub(a, b)), FMul(FromInt(n), Ulp(IF CmpAbs(a, b) >= 0 THEN a ELSE b)))

AllFitted == \A k \in Series : fits[k] # << >>

AllExtracted == \A k \in Series : Ds[k] # << >>

\* C1, as stated: on the shipped 1x series the fitted slope is negative and
\* extract_D of it is positive and of the order of 1e-11 to 1e-9, that is at
\* least 1e-11 and below 1e-8.
C1_AsStated ==
  (tables[1] = Shipped[1] /\ Ds[1] # << >>) =>
    /\ FLt(fits[1][1].slope, Zero)
    /\ FGt(Ds[1][1].v, Zero)
    /\ FLe(Dec(1, 11), Ds[1][1].v) /\ FLt(Ds[1][1].v, Dec(1, 8))

\* C1, amended: on the shipped 1x series the fitted slope is negative and
\* extract_D of it is positive and of the order of 1e-8: at least 1e-8 and
\* below 1e-7.
C1_Order1e8 ==
  (tables[1] = Shipped[1] /\ Ds[1] # << >>) =>
    /\ FLt(fits[1][1].slope, Zero)
    /\ FGt(Ds[1][1].v, Zero)
    /\ FLe(Dec(1, 8), Ds[1][1].v) /\ FLt(Ds[1][1].v, Dec(1, 7))

C1_Witness == tables[1] = Shipped[1] /\ Ds[1] # << >> /\ Ds[2] = << >>

\* C2: a fitted slope of zero never yields a diffusion coefficient: the
\* extraction step fails and the series gets no D.
C2_ZeroSlopeRejected ==
  \A k \in Series :
    (fits[k] # << >> /\ IsZero(fits[k][1].slope)) => Ds[k] = << >>

\* C3, as stated: for nonzero slopes a and b with |a| < |b|,
\* extract_D(a) > extract_D(b) > 0.
C3_AsStated ==
  (/\ call.fn = "extract_D" /\ call.Da # << >>
   /\ ~IsZero(call.a.v)
   /\ FLt(FAbs(call.a.v), FAbs(call.b.v))) =>
    /\ call.Da[1].raised = "none" /\ call.Db[1].raised = "none"
    /\ FGt(call.Da[1].value.v, call.Db[1].value.v)
    /\ FGt(call.Db[1].value.v, Zero)

\* C3, amended: for finite nonzero slopes a and b with |a| < |b|,
\* extract_D(a) >= extract_D(b) > 0.
C3_Monotone ==
  (/\ call.fn = "extract_D" /\ call.Da # << >>
   /\ ~IsZero(call.a.v) /\ IsFinite(call.a.v) /\ IsFinite(call.b.v)
   /\ FLt(FAbs(call.a.v), FAbs(call.b.v))) =>
    /\ call.Da[1].raised = "none" /\ call.Db[1].raised = "none"
    /\ FGe(call.Da[1].value.v, call.Db[1].value.v)
    /\ FGt(call.Db[1].value.v, Zero)

\* Two finite slopes of different magnitude with one and the same extract_D.
C3_Witness ==
  /\ call.fn = "extract_D" /\ call.Da # << >>
  /\ ~IsZero(call.a.v) /\ IsFinite(call.b.v)
  /\ FLt(FAbs(call.a.v), FAbs(call.b.v))
  /\ call.a.v.s = 1
  /\ call.Da[1] = call.Db[1]

\* C4: the impermeable-reference curve falls from every sample of
\* [min(H_PLA), max(H_PLA)] to the next, and its value at 64e-6, the first
\* sample, is greater than its value at 83e-6, the last.
C4_Decreasing ==
  call.fn = "imperm" =>
    /\ call.g.start = Dec(64, 6) /\ call.g.stop = Dec(83, 6)
    /\ call.prev # << >> => FLt(call.w, call.prev[1])
    /\ call.i = call.g.num - 1 =>
         /\ LinspaceAt(call.g, call.i) = Dec(83, 6)
         /\ FGt(call.first, call.w)

C4_Witness == call.fn = "imperm" /\ call.i = Samples200 - 1

\* sum of (u[i] - mu) * (v[i] - mv) for i in 1..n
RECURSIVE CentredSum(_, _, _, _, _)
CentredSum(u, mu, v, mv, n) ==
  IF n = 0 THEN Zero
  ELSE FAdd(CentredSum(u, mu, v, mv, n - 1), FMul(FSub(u[n], mu), FSub(v[n], mv)))

\* The closed form of ordinary least squares, evaluated in binary64:
\* slope = Sxy / Sxx, intercept = mean(y) - slope * mean(x).
ClosedForm(x, y) ==
  CHOOSE r \in
    {CHOOSE r \in {[slope |-> sl, intercept |-> FSub(my, FMul(sl, mx))] :
                     sl \in {FDiv(CentredSum(x, mx, y, my, Len(x)),
                                  CentredSum(x, mx, x, mx, Len(x)))}} : TRUE :
       mx \in {mean(x)}, my \in {mean(y)}} : TRUE

\* C5, as stated: the slope and intercept fitted to each shipped series equal
\* the closed-form values.
C5_AsStated ==
  \A k \in Series :
    (tables = Shipped /\ fits[k] # << >>) =>
      \E cf \in {ClosedForm(tables[k].H, tables[k].WVTR)} :
        /\ fits[k][1].slope = cf.slope
        /\ fits[k][1].intercept = cf.intercept

\* C5, amended: the slope and intercept fitted to each shipped series are
\* within one unit in the last place of the closed-form values.
C5_NearClosedForm ==
  \A k \in Series :
    (tables = Shipped /\ fits[k] # << >>) =>
      \E cf \in {ClosedForm(tables[k].H, tables[k].WVTR)} :
        /\ WithinUlps(fits[k][1].slope, cf.slope, 1)
        /\ WithinUlps(fits[k][1].intercept, cf.intercept, 1)

\* A shipped fit whose slope is not the closed-form slope.
C5_Witness ==
  /\ tables = Shipped /\ AllFitted /\ Ds = Unset
  /\ fits[2][1].slope # ClosedForm(tables[2].H, tables[2].WVTR).slope

\* Whether linregress is meant to reject the series: all x identical, x and
\* y of different lengths, or fewer than 2 points.
Degenerate(t) ==
  \/ Len(t.H) # Len(t.WVTR)
  \/ Len(t.H) < 2
  \/ \A i \in 1..Len(t.H) : t.H[i] = t.H[1]

\* C6: a degenerate series yields no fit result, no diffusion coefficient
\* and no printed line.
C6_DegenerateFails ==
  \A k \in Series :
    Degenerate(tables[k]) =>
      /\ fits[k] = << >>
      /\ Ds[k] = << >>
      /\ Len(out) < k + 1

\* The fitted line at every x of the series.
Predicted(f, x) == SubSeq([i \in 1..Len(x) |-> Predict(f, x[i])], 1, Len(x))

\* fit_linear of the series' x and the fitted line's values there.
Refit(k) == fit_linear(tables[k].H, Predicted(fits[k][1], tables[k].H))

\* C7, as stated: refitting the fitted line of each shipped series gives the
\* identical slope and intercept.
C7_AsStated ==
  \A k \in Series :
    (tables = Shipped /\ fits[k] # << >>) =>
      \E r \in {Refit(k)} :
        /\ r.raised = "none"
        /\ r.value.slope = fits[k][1].slope
        /\ r.value.intercept = fits[k][1].intercept

\* C7, amended: refitting the fitted line of each shipped series gives the
\* slope and intercept again up to rounding, within 16 units in the last
\* place.
C7_RefitClose ==
  \A k \in Series :
    (tables = Shipped /\ fits[k] # << >>) =>
      \E r \in {Refit(k)} :
        /\ r.raised = "none"
        /\ WithinUlps(r.value.slope, fits[k][1].slope, 16)
        /\ WithinUlps(r.value.intercept, fits[k][1].intercept, 16)

\* A shipped fit whose refit has another slope.
C7_Witness ==
  /\ tables = Shipped /\ AllFitted /\ Ds = Unset
  /\ Refit(1).value.slope # fits[1][1].slope

\* C8: the R^2 of every fit is at least 0 and at most 1.
C8_RSquaredInUnitInterval ==
  \A k \in Series :
    fits[k] # << >> => FLe(Zero, fits[k][1].r2) /\ FLe(fits[k][1].r2, One)

C8_Witness ==
  /\ tables = Shipped /\ AllFitted
  /\ \A k \in Series : FLt(Zero, fits[k][1].r2) /\ FLt(fits[k][1].r2, One)

\* What has run so far is, in this order: fits, extractions, printed lines,
\* figures, each group complete before the next begins.
Ordered ==
  /\ Ds # Unset => AllFitted
  /\ out # << >> => AllExtracted
  /\ Len(out) <= Len(Labels)
  /\ \A i \in 1..Len(out) : out[i].label = Labels[i]
  /\ \A i \in 2..Len(out) :
       out[i].text = <<Format2e(IF i = 6 THEN D_PLA_imperm ELSE Ds[i - 1][1].v)>>
  /\ shown # << >> => Len(out) = Len(Labels)
  /\ Len(shown) <= Len(Figures)
  /\ \A i \in 1..Len(shown) : shown[i] = Figures[i]

\* A run that ended without an exception has done everything.
Complete ==
  (Terminated /\ error = "none") =>
    AllFitted /\ AllExtracted /\ Len(out) = Len(Labels) /\ shown = Figures

\* One statement runs at a time and none runs twice: a result, once there,
\* stays as it is, and each step adds to exactly one of the results.
OneStep ==
  /\ \A k \in Series : fits[k] # << >> => fits'[k] = fits[k]
  /\ \A k \in Series : Ds[k] # << >> => Ds'[k] = Ds[k]
  /\ \A k \in Series : Hfit[k] # << >> => Hfit'[k] = Hfit[k]
  /\ \A k \in 1..5 : WVTR_fit[k] # << >> => WVTR_fit'[k] = WVTR_fit[k]
  /\ Len(out') \in {Len(out), Len(out) + 1}
  /\ Len(shown') \in {Len(shown), Len(shown) + 1}
  /\ \/ error' # "none" /\ pc' = pc
     \/ error' = "none" /\ pc' = pc + 1

C10_ShippedSlopesNegative ==
  \A k \in Series :
    (tables[k] = Shipped[k] /\ fits[k] # << >>) => FLt(fits[k][1].slope, Zero)

C10_Witness ==
  /\ tables = Shipped /\ AllExtracted
  /\ \A k \in Series : fits[k][1].slope.s = 1 /\ IsFinite(Ds[k][1].v)

=============================================================================
